---- MODULE Spec2Model ----
(***************************************************************************)
(* Pod replacement reconciler (pkg/devspace/services/podreplace/replace.go) *)
(*                                                                         *)
(* The model follows one namespace of a cluster: the workload objects, the *)
(* persistent volume claims and the persisted remote cache, and, for every *)
(* devspace process, the position of its ReplacePod call together with the *)
(* locals of that call.  Every cluster request is one atomic step.         *)
(* Operator changes (scaling, template edits, deletion of the target) are  *)
(* interleaved with whole ReplacePod calls; a process may crash between    *)
(* any two requests.  A call that has returned stays at "returned", with   *)
(* its result and the requests it made, until its caller goes on.          *)
(*                                                                         *)
(* Spec follows one process through calls, crashes and operator changes;   *)
(* SpecPVC the persistent volume step of replace for every                 *)
(* PersistenceOptions; SpecStale a pass over a cached replacement left in  *)
(* any state; SpecRace two processes replacing the same dev pod at once.   *)
(***************************************************************************)
EXTENDS Integers, Sequences, FiniteSets, TLC

----------------------------------------------------------------------------
(* Bounds of the model *)

\* largest replica count an operator gives the target
MaxReplicas == 10
\* depth of the ReplacePod recursion followed before the model stops the call
MaxDepth == 3
\* number of polls of wait.Poll before it times out (2 minutes / 1 second in
\* the code, a handful here)
PollLimit == 2

----------------------------------------------------------------------------
(* Program constants *)

TargetKindAnnotation == "devspace.sh/parent-kind"
TargetNameAnnotation == "devspace.sh/parent-name"
DevPodConfigHashAnnotation == "devspace.sh/config-hash"
ReplicasAnnotation == "devspace.sh/replicas"
ReplicaSetLabel == "devspace.sh/replaced"

\* the nil *int32 of Spec.Replicas
Unset == -1

DefaultSize == "10Gi"
ReadWriteOnce == "ReadWriteOnce"

Kinds == {"Deployment", "ReplicaSet", "StatefulSet"}

----------------------------------------------------------------------------
(* Names and inputs *)

TargetName == "web"

\* target.GetName() + "-devspace"
ReplicaSetName(targetName) == targetName \o "-devspace"

ClaimName == "data"
\* a dev pod named like its replacement, one named like its target and one
\* named like neither
DevPodNames == {ReplicaSetName(TargetName), TargetName, "api"}
Procs == {"p1", "p2"}

\* replica counts an operator sets
ReplicaChoices == {0, 1, MaxReplicas}

Digits == <<"0", "1", "2", "3", "4", "5", "6", "7", "8", "9">>

\* strconv.Itoa on a non-negative int
RECURSIVE Itoa(_)
Itoa(n) == IF n < 10 THEN Digits[n + 1]
           ELSE Itoa(n \div 10) \o Digits[(n % 10) + 1]

----------------------------------------------------------------------------
(* Objects of the cluster *)

NoAnnotations ==
    [parentKind |-> "", parentName |-> "", configHash |-> "", replicas |-> ""]

\* a workload an operator owns: kind, name, Spec.Replicas, the annotations
\* this code reads or writes, the pod template, and whether it carries the
\* devspace.sh/replaced label
Workload(kind, name, replicas, base) ==
    [kind |-> kind, name |-> name, replicas |-> replicas,
     annotations |-> NoAnnotations,
     template |-> [base |-> base, persist |-> FALSE],
     replaced |-> FALSE]

\* the zero value of an object pointer that holds nothing
NoObject == Workload("", "", Unset, "")

Key(obj) == <<obj.kind, obj.name>>

\* latest.PersistenceOptions; isNil is the nil pointer, AccessModes.isNil the
\* nil slice
NilModes == [isNil |-> TRUE, modes |-> <<>>]
Modes(m) == [isNil |-> FALSE, modes |-> m]
NilOptions ==
    [isNil |-> TRUE, Size |-> "", StorageClassName |-> "",
     AccessModes |-> NilModes, Name |-> ""]
Options(size, class, modes, name) ==
    [isNil |-> FALSE, Size |-> size, StorageClassName |-> class,
     AccessModes |-> modes, Name |-> name]

SizeChoices == {"", "20Gi", "lots"}
ClassChoices == {"", "fast"}
ModeChoices == {NilModes, Modes(<<>>), Modes(<<"ReadWriteMany">>)}
ClaimNameChoices == {"", ClaimName}

\* every PersistenceOptions value of the model
AllOptions ==
    {NilOptions} \cup
    {Options(s, c, m, n) : s \in SizeChoices, c \in ClassChoices,
                           m \in ModeChoices, n \in ClaimNameChoices}

\* the PersistenceOptions the reconciliation runs are given
RunOptions ==
    {NilOptions,
     Options("", "", NilModes, ClaimName),
     Options("lots", "", NilModes, "")}

\* dev containers: one without and one with persisted paths
PlainContainers == <<[persistPaths |-> <<>>]>>
PersistContainers == <<[persistPaths |-> <<>>], [persistPaths |-> <<"/data">>]>>

DevPod(name, containers, opts) ==
    [name |-> name, containers |-> containers, PersistenceOptions |-> opts]

NoDevPod == DevPod("", <<>>, NilOptions)

\* the dev pod declarations a ReplacePod call of dev pod `name` is given
DevPodInputs(name) ==
    {DevPod(name, PlainContainers, NilOptions)} \cup
    {DevPod(name, PersistContainers, o) : o \in RunOptions}

\* loader.EachDevContainer with len(devContainer.PersistPaths) > 0
HasPersistPath(devPod) ==
    \E i \in 1..Len(devPod.containers) :
        Len(devPod.containers[i].persistPaths) > 0

----------------------------------------------------------------------------
(* Config Hasher and Replacement Builder (spec 4.1, 4.3) *)

RECURSIVE JoinModes(_)
JoinModes(m) == IF m = <<>> THEN "" ELSE Head(m) \o ";" \o JoinModes(Tail(m))

OptionsText(o) ==
    IF o.isNil THEN "nil"
    ELSE o.Size \o "," \o o.StorageClassName \o ","
         \o (IF o.AccessModes.isNil THEN "nil" ELSE "[" \o JoinModes(o.AccessModes.modes) \o "]")
         \o "," \o o.Name

\* deterministic digest of the dev pod declaration: equal declarations give
\* equal text, declarations differing in a field give different text
hashConfig(devPod) ==
    "sha(" \o devPod.name \o ","
           \o (IF HasPersistPath(devPod) THEN "persist" ELSE "plain") \o ","
           \o OptionsText(devPod.PersistenceOptions) \o ")"

\* the desired replacement: the target's pod template with the dev pod's
\* overrides, one replica, the three annotations and the replaced label
buildReplicaSet(name, target, devPod) ==
    [kind |-> "ReplicaSet", name |-> name, replicas |-> 1,
     annotations |-> [parentKind |-> target.kind, parentName |-> target.name,
                      configHash |-> hashConfig(devPod), replicas |-> ""],
     template |-> [base |-> target.template.base,
                   persist |-> HasPersistPath(devPod)],
     replaced |-> TRUE]

----------------------------------------------------------------------------
(* Merge patches (patch2.MergeFrom / patch.Data) *)

PatchFields == {"replicas", "annotations.replicas", "annotations.configHash", "template"}

Field(obj, f) ==
    CASE f = "replicas" -> <<obj.replicas>>
      [] f = "annotations.replicas" -> <<obj.annotations.replicas>>
      [] f = "annotations.configHash" -> <<obj.annotations.configHash>>
      [] f = "template" -> <<obj.template>>

\* the fields in which `modified` differs from `original`, with their new values
MergePatch(original, modified) ==
    [f \in {g \in PatchFields : Field(original, g) # Field(modified, g)} |->
        Field(modified, f)[1]]

\* the live object after the server has applied a merge patch
ApplyPatch(obj, patch) ==
    LET val(f, old) == IF f \in DOMAIN patch THEN patch[f] ELSE old IN
    [obj EXCEPT !.replicas = val("replicas", @),
                !.annotations.replicas = val("annotations.replicas", @),
                !.annotations.configHash = val("annotations.configHash", @),
                !.template = val("template", @)]

----------------------------------------------------------------------------
(* Scale Controller: the part of scaleDownTarget before the patch request *)

\* replicas := 1; if t.Spec.Replicas != nil { replicas = int(*t.Spec.Replicas) }
ReplicasOf(t) == IF t.replicas = Unset THEN 1 ELSE t.replicas

\* a scale-down that annotates after zeroing the count
ScaledDownZeroFirst(t) ==
    [t EXCEPT !.annotations.replicas = Itoa(0), !.replicas = 0]

\* the object after t.Annotations[ReplicasAnnotation] = strconv.Itoa(replicas)
\* and t.Spec.Replicas = ptr.Int32(0)
ScaledDown(t) ==
    [t EXCEPT !.annotations.replicas = Itoa(ReplicasOf(t)), !.replicas = 0]

\* a scale-down without the early return
ScaleDownPatchesAlways(t) == TRUE

\* if replicas == 0 { return nil }: whether a patch request is made at all
ScaleDownPatches(t) == ReplicasOf(t) # 0

\* patch2.MergeFrom(cloned) and patch.Data(t)
ScaleDownPatch(t) == MergePatch(t, ScaledDown(t))

----------------------------------------------------------------------------
(* Persistent Volume Provisioner: the claim createPVC asks for *)

\* resource.ParseQuantity on the quantity strings of the model
ParseQuantity(s) ==
    CASE s = "10Gi" -> [ok |-> TRUE, value |-> 10, suffix |-> "Gi"]
      [] s = "20Gi" -> [ok |-> TRUE, value |-> 20, suffix |-> "Gi"]
      [] OTHER -> [ok |-> FALSE, value |-> 0, suffix |-> ""]

OptionSet(devPod, field) ==
    /\ ~devPod.PersistenceOptions.isNil
    /\ devPod.PersistenceOptions[field] # ""

\* a size that ignores PersistenceOptions.Size
PVCSizeAlwaysDefault(devPod) == ParseQuantity(DefaultSize)

PVCSize(devPod) ==
    IF OptionSet(devPod, "Size")
    THEN ParseQuantity(devPod.PersistenceOptions.Size)
    ELSE ParseQuantity(DefaultSize)

\* the empty string stands for the nil *string
PVCStorageClass(devPod) ==
    IF OptionSet(devPod, "StorageClassName")
    THEN devPod.PersistenceOptions.StorageClassName
    ELSE ""

PVCAccessModes(devPod) ==
    IF ~devPod.PersistenceOptions.isNil /\ ~devPod.PersistenceOptions.AccessModes.isNil
    THEN devPod.PersistenceOptions.AccessModes.modes
    ELSE <<ReadWriteOnce>>

PVCName(rs, devPod) ==
    IF OptionSet(devPod, "Name") THEN devPod.PersistenceOptions.Name ELSE rs.name

\* the corev1.PersistentVolumeClaim handed to Create
PVCRequest(rs, devPod) ==
    [name |-> PVCName(rs, devPod),
     ownerKind |-> "ReplicaSet", ownerName |-> rs.name, controller |-> TRUE,
     accessModes |-> PVCAccessModes(devPod),
     storage |-> PVCSize(devPod),
     storageClassName |-> PVCStorageClass(devPod),
     terminating |-> FALSE]

\* a claim left in the namespace by somebody else
StaleClaim(name) ==
    [name |-> name, ownerKind |-> "", ownerName |-> "", controller |-> FALSE,
     accessModes |-> <<ReadWriteOnce>>, storage |-> ParseQuantity("10Gi"),
     storageClassName |-> "", terminating |-> FALSE]

----------------------------------------------------------------------------
(* Remote cache entries *)

Namespace == "dev"

\* the zero remotecache.DevPodCache
NoEntry ==
    [Name |-> "", Namespace |-> "", TargetKind |-> "", TargetName |-> "",
     ReplicaSet |-> ""]

\* RemoteCache().GetDevPod(name), and the defaults ReplacePod fills in
GetDevPod(cache, name) ==
    IF name \in DOMAIN cache THEN cache[name]
    ELSE [NoEntry EXCEPT !.Name = name, !.Namespace = Namespace]

\* RemoteCache().SetDevPod(name, entry)
SetDevPod(cache, name, entry) ==
    [n \in DOMAIN cache \cup {name} |-> IF n = name THEN entry ELSE cache[n]]

\* a cache entry that leaves the target kind out
CacheForNoKind(entry, tg) ==
    [entry EXCEPT !.TargetName = tg.name, !.ReplicaSet = ReplicaSetName(tg.name)]

\* devPodCache.TargetKind / TargetName / ReplicaSet of the full path
CacheFor(entry, tg) ==
    [entry EXCEPT !.TargetKind = tg.kind, !.TargetName = tg.name,
                  !.ReplicaSet = ReplicaSetName(tg.name)]

----------------------------------------------------------------------------
(* State *)

VARIABLES
    objects,      \* the workloads of the namespace, by <<kind, name>>
    pvcs,         \* the persistent volume claims of the namespace, by name
    savedCache,   \* the remote cache as last saved to the cluster
    memCache,     \* each process's in-memory copy of the remote cache
    pc,           \* where each process's ReplacePod call stands
    devPod,       \* the declaration the call was given
    devPodCache,  \* the call's devPodCache local
    replicaSet,   \* the replica set the call fetched or created
    target,       \* the target object the call resolved
    depth,        \* how many times the call has re-entered ReplacePod
    polls,        \* polls made by wait.Poll
    result,       \* what the call returned: "none", "ok", "error"
    calls,        \* the mutating requests the call has made
    atStart,      \* what the namespace held when the call started
    repeat,       \* the call repeats the successful call before it
    devName,      \* the name of the dev pod of this run
    active,       \* the processes of this run
    faults        \* whether requests of this run can fail for other reasons
                  \* than the state of the cluster

vars == <<objects, pvcs, savedCache, memCache, pc, devPod, devPodCache,
          replicaSet, target, depth, polls, result, calls, atStart, repeat,
          devName, active, faults>>

cluster == <<objects, pvcs>>
history == <<atStart, repeat, devName, active, faults>>

\* the outcomes of a request: it goes through, or fails with an error that is
\* neither not-found nor already-exists
Faults == IF faults THEN BOOLEAN ELSE {FALSE}

Exists(kind, name) == <<kind, name>> \in DOMAIN objects

\* the workloads without the replaced label: what a selector can match
Candidates == {k \in DOMAIN objects : ~objects[k].replaced}

Put(objs, obj) ==
    [k \in DOMAIN objs \cup {Key(obj)} |-> IF k = Key(obj) THEN obj ELSE objs[k]]

Remove(objs, key) == [k \in DOMAIN objs \ {key} |-> objs[k]]

Snapshot(p, name) ==
    [cached |-> name \in DOMAIN memCache[p],
     replacements |-> {objects[k] : k \in DOMAIN objects \ Candidates},
     targets |-> {objects[k] : k \in Candidates}]

NoSnapshot == [cached |-> FALSE, replacements |-> {}, targets |-> {}]

\* a mutating request and how the cluster answered it: "ok", "NotFound",
\* "AlreadyExists" or "error" (any other failure)
Call(op, kind, name, answer) ==
    [op |-> op, kind |-> kind, name |-> name, answer |-> answer]

Log(p, call) == calls' = [calls EXCEPT ![p] = Append(@, call)]

InitWith(procs, failing) ==
    /\ active = procs
    /\ faults = failing
    /\ devName \in DevPodNames
    /\ \E kind \in Kinds, n \in ReplicaChoices \cup {Unset} :
          objects = Put(<<>>, Workload(kind, TargetName, n, "v1"))
    /\ \E stale \in SUBSET {ReplicaSetName(TargetName), ClaimName} :
          pvcs = [n \in stale |-> StaleClaim(n)]
    /\ savedCache = <<>>
    /\ memCache = [p \in Procs |-> <<>>]
    /\ pc = [p \in Procs |-> "idle"]
    /\ devPod = [p \in Procs |-> NoDevPod]
    /\ devPodCache = [p \in Procs |-> NoEntry]
    /\ replicaSet = [p \in Procs |-> NoObject]
    /\ target = [p \in Procs |-> NoObject]
    /\ depth = [p \in Procs |-> 0]
    /\ polls = [p \in Procs |-> 0]
    /\ result = [p \in Procs |-> "none"]
    /\ calls = [p \in Procs |-> <<>>]
    /\ atStart = [p \in Procs |-> NoSnapshot]
    /\ repeat = [p \in Procs |-> FALSE]

Init == InitWith({"p1"}, TRUE)

----------------------------------------------------------------------------
(* How a step of a call ends *)

\* the call goes on at `label` with these locals
Continue(p, label, rs, tg) ==
    /\ pc' = [pc EXCEPT ![p] = label]
    /\ replicaSet' = [replicaSet EXCEPT ![p] = rs]
    /\ target' = [target EXCEPT ![p] = tg]
    /\ UNCHANGED <<devPod, devPodCache, depth, polls, result>>

\* the top-level call returns r to its caller: its locals are gone
Return(p, r) ==
    /\ pc' = [pc EXCEPT ![p] = "returned"]
    /\ result' = [result EXCEPT ![p] = r]
    /\ devPodCache' = [devPodCache EXCEPT ![p] = NoEntry]
    /\ replicaSet' = [replicaSet EXCEPT ![p] = NoObject]
    /\ target' = [target EXCEPT ![p] = NoObject]
    /\ depth' = [depth EXCEPT ![p] = 0]
    /\ polls' = [polls EXCEPT ![p] = 0]
    /\ UNCHANGED devPod

\* lines 55-62: where ReplacePod goes after reading the cache
Entry(entry) == IF entry.ReplicaSet # "" THEN "getRS" ELSE "findTarget"

----------------------------------------------------------------------------
(* ReplacePod, lines 49-85 *)

\* lines 50-62 of a top-level call ReplacePod(ctx, d)
Enter(p, d, again) ==
    LET entry == GetDevPod(memCache[p], d.name) IN
    /\ devPod' = [devPod EXCEPT ![p] = d]
    /\ devPodCache' = [devPodCache EXCEPT ![p] = entry]
    /\ pc' = [pc EXCEPT ![p] = Entry(entry)]
    /\ repeat' = [repeat EXCEPT ![p] = again]
    /\ atStart' = [atStart EXCEPT ![p] = Snapshot(p, d.name)]
    /\ result' = [result EXCEPT ![p] = "none"]
    /\ calls' = [calls EXCEPT ![p] = <<>>]
    /\ UNCHANGED <<objects, pvcs, savedCache, memCache, replicaSet, target,
                   depth, polls, devName, active, faults>>

\* a process is asked to replace the dev pod
Start(p) ==
    /\ p \in active
    /\ pc[p] = "idle"
    /\ \E d \in DevPodInputs(devName) : Enter(p, d, FALSE)

\* the caller of a successful call calls again with the same declaration
Again(p) ==
    /\ pc[p] = "returned"
    /\ result[p] = "ok"
    /\ Enter(p, devPod[p], TRUE)

\* the caller goes on
Finish(p) ==
    /\ pc[p] = "returned"
    /\ pc' = [pc EXCEPT ![p] = "idle"]
    /\ devPod' = [devPod EXCEPT ![p] = NoDevPod]
    /\ result' = [result EXCEPT ![p] = "none"]
    /\ calls' = [calls EXCEPT ![p] = <<>>]
    /\ atStart' = [atStart EXCEPT ![p] = NoSnapshot]
    /\ repeat' = [repeat EXCEPT ![p] = FALSE]
    /\ UNCHANGED <<objects, pvcs, savedCache, memCache, devPodCache, replicaSet,
                   target, depth, polls, devName, active, faults>>

\* the name ReplacePod asks the cluster for at line 67
LookupName(entry) == entry.Name

\* ReplicaSets(devPodCache.Namespace).Get(ctx, devPodCache.Name), line 67
GetReplicaSet(p) ==
    /\ pc[p] = "getRS"
    /\ \E fail \in Faults :
          LET key == <<"ReplicaSet", LookupName(devPodCache[p])>> IN
          IF fail THEN Return(p, "error")
          ELSE IF key \notin DOMAIN objects
               THEN Continue(p, "findTarget", NoObject, NoObject)
               ELSE Continue(p, "updateNeeded", objects[key], NoObject)
    /\ UNCHANGED <<objects, pvcs, savedCache, memCache, calls, history>>

----------------------------------------------------------------------------
(* updateNeeded, lines 116-164, and deleteReplicaSet, lines 166-176 *)

\* a test that wants both annotations missing
UnmanagedBothMissing(rs) ==
    rs.annotations.parentKind = "" /\ rs.annotations.parentName = ""

\* line 117
Unmanaged(rs) ==
    rs.annotations.parentKind = "" \/ rs.annotations.parentName = ""

\* a comparison that looks at the pod template only
UpToDateTemplateOnly(rs, tg, d) ==
    buildReplicaSet(rs.name, tg, d).template = rs.template

\* line 142: pod template and config hash are the same
UpToDate(rs, tg, d) ==
    /\ buildReplicaSet(rs.name, tg, d).template = rs.template
    /\ hashConfig(d) = rs.annotations.configHash

\* lines 153-157: the replica set with the new template and hash
Updated(rs, tg, d) ==
    [rs EXCEPT !.template = buildReplicaSet(rs.name, tg, d).template,
               !.annotations.configHash = hashConfig(d)]

\* lines 117-150 up to the first mutating request
UpdateNeeded(p) ==
    /\ pc[p] = "updateNeeded"
    /\ LET rs == replicaSet[p]
           key == <<rs.annotations.parentKind, rs.annotations.parentName>>
       IN
       IF Unmanaged(rs) THEN Continue(p, "deleteReplicaSet", rs, NoObject)
       ELSE \E fail \in Faults :
               IF fail THEN Return(p, "error")
               ELSE IF key \notin DOMAIN objects
                    THEN Continue(p, "deleteReplicaSet", rs, NoObject)
                    ELSE IF UpToDate(rs, objects[key], devPod[p])
                         THEN Continue(p, "assertScaleDown", rs, objects[key])
                         ELSE Continue(p, "patchReplicaSet", rs, objects[key])
    /\ UNCHANGED <<objects, pvcs, savedCache, memCache, calls, history>>

\* return true, deleteReplicaSet(ctx, replicaSet): lines 118, 124, 166-176
DeleteReplicaSet(p) ==
    /\ pc[p] = "deleteReplicaSet"
    /\ LET rs == replicaSet[p] IN
       \E fail \in Faults :
          IF fail
          THEN /\ Log(p, Call("Delete", rs.kind, rs.name, "error"))
               /\ objects' = objects
               /\ Return(p, "error")
          ELSE /\ Log(p, Call("Delete", rs.kind, rs.name,
                              IF Key(rs) \in DOMAIN objects THEN "ok" ELSE "NotFound"))
               /\ objects' = Remove(objects, Key(rs))
               /\ Continue(p, "findTarget", rs, NoObject)
    /\ UNCHANGED <<pvcs, savedCache, memCache, history>>

\* how the cluster answers a patch of the object `key`, failing if `fail`
PatchAnswer(key, fail) ==
    IF fail THEN "error" ELSE IF key \notin DOMAIN objects THEN "NotFound" ELSE "ok"

\* does scaleDownTarget(t) return an error, the patch request failing if `fail`
ScaleDownFails(t, fail) ==
    \/ t.kind \notin Kinds
    \/ ScaleDownPatches(t) /\ PatchAnswer(Key(t), fail) # "ok"

\* what scaleDownTarget(t) does to the cluster, lines 305-397
ScaleDownTarget(p, t, fail) ==
    IF t.kind \in Kinds /\ ScaleDownPatches(t)
    THEN /\ Log(p, Call("Patch", t.kind, t.name, PatchAnswer(Key(t), fail)))
         /\ objects' = IF ScaleDownFails(t, fail) THEN objects
                       ELSE Put(objects, ApplyPatch(objects[Key(t)], ScaleDownPatch(t)))
    ELSE UNCHANGED <<objects, calls>>

\* a no-change branch that leaves the target alone
AssertScaleDownSkipped(p) ==
    /\ pc[p] = "assertScaleDown"
    /\ Return(p, "ok")
    /\ UNCHANGED <<objects, calls, pvcs, savedCache, memCache, history>>

\* lines 143-149: make sure target is downscaled, the error only logged
AssertScaleDown(p) ==
    /\ pc[p] = "assertScaleDown"
    /\ \E fail \in Faults :
          /\ ScaleDownTarget(p, target[p], fail)
          /\ Return(p, "ok")
    /\ UNCHANGED <<pvcs, savedCache, memCache, history>>

\* lines 152-163: update replica set
PatchReplicaSet(p) ==
    /\ pc[p] = "patchReplicaSet"
    /\ LET rs == replicaSet[p]
           patch == MergePatch(rs, Updated(rs, target[p], devPod[p]))
       IN
       \E fail \in Faults :
          IF PatchAnswer(Key(rs), fail) # "ok"
          THEN /\ Log(p, Call("Patch", rs.kind, rs.name, PatchAnswer(Key(rs), fail)))
               /\ objects' = objects
               /\ Return(p, "error")
          ELSE /\ Log(p, Call("Patch", rs.kind, rs.name, "ok"))
               /\ objects' = Put(objects, ApplyPatch(objects[Key(rs)], patch))
               /\ Return(p, "ok")
    /\ UNCHANGED <<pvcs, savedCache, memCache, history>>

----------------------------------------------------------------------------
(* ReplacePod, lines 87-114: the full path *)

\* a full path that takes no match for nothing to do
FindTargetNoneIsDone(p) ==
    /\ pc[p] = "findTarget"
    /\ \E fail \in Faults :
          IF fail THEN Return(p, "error")
          ELSE IF Candidates = {} THEN Return(p, "ok")
          ELSE LET tg == objects[CHOOSE k \in Candidates : TRUE] IN
               /\ pc' = [pc EXCEPT ![p] = "save"]
               /\ target' = [target EXCEPT ![p] = tg]
               /\ devPodCache' = [devPodCache EXCEPT ![p] = CacheFor(@, tg)]
               /\ UNCHANGED <<devPod, replicaSet, depth, polls, result>>
    /\ UNCHANGED <<objects, pvcs, savedCache, memCache, calls, history>>

\* findTargetBySelector (spec 4.2): the workload the selector matches, if any
FindTarget(p) ==
    /\ pc[p] = "findTarget"
    /\ \E fail \in Faults :
          IF fail \/ Candidates = {}
          THEN /\ Return(p, "error")
          ELSE LET tg == objects[CHOOSE k \in Candidates : TRUE] IN
               /\ pc' = [pc EXCEPT ![p] = "save"]
               /\ target' = [target EXCEPT ![p] = tg]
               /\ devPodCache' = [devPodCache EXCEPT ![p] = CacheFor(@, tg)]
               /\ UNCHANGED <<devPod, replicaSet, depth, polls, result>>
    /\ UNCHANGED <<objects, pvcs, savedCache, memCache, calls, history>>

\* a Save that reports success without writing
PersistedNever(cache, fail) == savedCache

\* line 100: the remote cache after RemoteCache().Save
Persisted(cache, fail) == IF fail THEN savedCache ELSE cache

\* lines 99-103: SetDevPod, then Save
Save(p) ==
    /\ pc[p] = "save"
    /\ LET entry == devPodCache[p]
           cache == SetDevPod(memCache[p], entry.Name, entry)
       IN
       /\ memCache' = [memCache EXCEPT ![p] = cache]
       /\ \E fail \in Faults :
             /\ Log(p, Call("Save", "Cache", entry.Name, IF fail THEN "error" ELSE "ok"))
             /\ savedCache' = Persisted(cache, fail)
             /\ IF fail
                THEN Return(p, "error")
                ELSE Continue(p, "scaleDown", replicaSet[p], target[p])
    /\ UNCHANGED <<objects, pvcs, history>>

----------------------------------------------------------------------------
(* replace, lines 178-238 *)

\* a replace that goes on to the create whatever the scale-down returned
ScaleDownErrorIgnored(p) ==
    /\ pc[p] = "scaleDown"
    /\ LET tg == target[p]
           replicaSetObj == buildReplicaSet(devPodCache[p].ReplicaSet, tg, devPod[p])
       IN
       \E fail \in Faults :
          /\ ScaleDownTarget(p, tg, fail)
          /\ Continue(p, "create", replicaSetObj,
                      IF ScaleDownPatches(tg) THEN ScaledDown(tg) ELSE tg)
    /\ UNCHANGED <<pvcs, savedCache, memCache, history>>

\* lines 179-189: build the replica set, scale down parent
ScaleDown(p) ==
    /\ pc[p] = "scaleDown"
    /\ LET tg == target[p]
           replicaSetObj == buildReplicaSet(devPodCache[p].ReplicaSet, tg, devPod[p])
       IN
       \E fail \in Faults :
          /\ ScaleDownTarget(p, tg, fail)
          /\ IF ScaleDownFails(tg, fail)
             THEN Return(p, "error")
             ELSE Continue(p, "create", replicaSetObj,
                           IF ScaleDownPatches(tg) THEN ScaledDown(tg) ELSE tg)
    /\ UNCHANGED <<pvcs, savedCache, memCache, history>>

\* lines 191-210: create the replica set; already exists re-enters ReplacePod
Create(p) ==
    /\ pc[p] = "create"
    /\ LET obj == replicaSet[p] IN
       \E fail \in Faults :
          IF fail
          THEN /\ Log(p, Call("Create", obj.kind, obj.name, "error"))
               /\ objects' = objects
               /\ Return(p, "error")
          ELSE IF Key(obj) \in DOMAIN objects
          THEN LET entry == GetDevPod(memCache[p], devPod[p].name) IN
               /\ depth[p] < MaxDepth
               /\ Log(p, Call("Create", obj.kind, obj.name, "AlreadyExists"))
               /\ objects' = objects
               /\ depth' = [depth EXCEPT ![p] = @ + 1]
               /\ devPodCache' = [devPodCache EXCEPT ![p] = entry]
               /\ pc' = [pc EXCEPT ![p] = Entry(entry)]
               /\ replicaSet' = [replicaSet EXCEPT ![p] = NoObject]
               /\ target' = [target EXCEPT ![p] = NoObject]
               /\ UNCHANGED <<devPod, polls, result>>
          ELSE /\ Log(p, Call("Create", obj.kind, obj.name, "ok"))
               /\ objects' = Put(objects, obj)
               /\ IF HasPersistPath(devPod[p])
                  THEN Continue(p, "createPVC", obj, target[p])
                  ELSE Return(p, "ok")
    /\ UNCHANGED <<pvcs, savedCache, memCache, history>>

\* how the cluster answers the create request of line 268, failing if `fail`
CreatePVCAnswer(rs, d, fail) ==
    IF fail THEN "error"
    ELSE IF PVCName(rs, d) \in DOMAIN pvcs THEN "AlreadyExists" ELSE "ok"

\* a createPVC that passes every already-exists error on
CreatePVCOutcomeNoAdoption(rs, d, fail) ==
    IF ~PVCSize(d).ok THEN "error"
    ELSE CASE CreatePVCAnswer(rs, d, fail) = "ok" -> "created"
           [] CreatePVCAnswer(rs, d, fail) = "AlreadyExists" -> "exists"
           [] OTHER -> "error"

\* what createPVC returns, lines 240-303: "created", "adopted" (nil for an
\* existing claim with an explicit name), "exists" (the already-exists
\* error) or "error"
CreatePVCOutcome(rs, d, fail) ==
    IF ~PVCSize(d).ok THEN "error"
    ELSE CASE CreatePVCAnswer(rs, d, fail) = "ok" -> "created"
           [] CreatePVCAnswer(rs, d, fail) = "AlreadyExists" ->
                 (IF OptionSet(d, "Name") THEN "adopted" ELSE "exists")
           [] OTHER -> "error"

\* what createPVC does to the cluster
CreatePVCRequest(p, rs, d, fail) ==
    IF ~PVCSize(d).ok THEN UNCHANGED <<pvcs, calls>>
    ELSE /\ Log(p, Call("Create", "PersistentVolumeClaim", PVCName(rs, d),
                        CreatePVCAnswer(rs, d, fail)))
         /\ pvcs' = IF CreatePVCAnswer(rs, d, fail) = "ok"
                    THEN [n \in DOMAIN pvcs \cup {PVCName(rs, d)} |->
                             IF n = PVCName(rs, d) THEN PVCRequest(rs, d) ELSE pvcs[n]]
                    ELSE pvcs

\* lines 211-214 and 231-233: the first createPVC
CreatePVC(p) ==
    /\ pc[p] = "createPVC"
    /\ \E fail \in Faults :
          LET outcome == CreatePVCOutcome(replicaSet[p], devPod[p], fail) IN
          /\ CreatePVCRequest(p, replicaSet[p], devPod[p], fail)
          /\ CASE outcome \in {"created", "adopted"} -> Return(p, "ok")
               [] outcome = "exists" -> Continue(p, "deletePVC", replicaSet[p], target[p])
               [] OTHER -> Return(p, "error")
    /\ UNCHANGED <<objects, savedCache, memCache, history>>

\* line 216: delete the old one, the error dropped
DeletePVC(p) ==
    /\ pc[p] = "deletePVC"
    /\ LET name == replicaSet[p].name IN
       \E fail \in Faults, gone \in BOOLEAN :
          IF fail \/ name \notin DOMAIN pvcs
          THEN /\ ~gone
               /\ Log(p, Call("Delete", "PersistentVolumeClaim", name,
                              IF fail THEN "error" ELSE "NotFound"))
               /\ pvcs' = pvcs
          ELSE /\ Log(p, Call("Delete", "PersistentVolumeClaim", name, "ok"))
               /\ pvcs' = IF gone THEN [n \in DOMAIN pvcs \ {name} |-> pvcs[n]]
                          ELSE [pvcs EXCEPT ![name].terminating = TRUE]
    /\ Continue(p, "poll", replicaSet[p], target[p])
    /\ UNCHANGED <<objects, savedCache, memCache, history>>

\* lines 218-224: wait.Poll until a Get of the claim is not found
Poll(p) ==
    /\ pc[p] = "poll"
    /\ \E fail \in Faults :
          IF ~fail /\ replicaSet[p].name \notin DOMAIN pvcs
          THEN Continue(p, "recreatePVC", replicaSet[p], target[p])
          ELSE IF polls[p] + 1 >= PollLimit
               THEN Return(p, "error")
               ELSE /\ polls' = [polls EXCEPT ![p] = @ + 1]
                    /\ UNCHANGED <<pc, devPod, devPodCache, replicaSet, target,
                                   depth, result>>
    /\ UNCHANGED <<objects, pvcs, savedCache, memCache, calls, history>>

\* a second create that starts the delete and the wait over on already-exists
RecreatePVCRetrying(p) ==
    /\ pc[p] = "recreatePVC"
    /\ \E fail \in Faults :
          LET outcome == CreatePVCOutcome(replicaSet[p], devPod[p], fail) IN
          /\ CreatePVCRequest(p, replicaSet[p], devPod[p], fail)
          /\ CASE outcome \in {"created", "adopted"} -> Return(p, "ok")
               [] outcome = "exists" -> Continue(p, "deletePVC", replicaSet[p], target[p])
               [] OTHER -> Return(p, "error")
    /\ UNCHANGED <<objects, savedCache, memCache, history>>

\* lines 226-230: create the new one
RecreatePVC(p) ==
    /\ pc[p] = "recreatePVC"
    /\ \E fail \in Faults :
          /\ CreatePVCRequest(p, replicaSet[p], devPod[p], fail)
          /\ IF CreatePVCOutcome(replicaSet[p], devPod[p], fail) \in {"created", "adopted"}
             THEN Return(p, "ok")
             ELSE Return(p, "error")
    /\ UNCHANGED <<objects, savedCache, memCache, history>>

----------------------------------------------------------------------------
(* The environment *)

\* the cluster finishes removing a claim that was deleted
Terminate ==
    /\ \E name \in DOMAIN pvcs :
          /\ pvcs[name].terminating
          /\ pvcs' = [n \in DOMAIN pvcs \ {name} |-> pvcs[n]]
    /\ UNCHANGED <<objects, savedCache, memCache, pc, devPod, devPodCache,
                   replicaSet, target, depth, polls, result, calls, history>>

\* the process dies in the middle of a call; the next one starts from the
\* saved cache
Crash(p) ==
    /\ pc[p] \notin {"idle", "returned"}
    /\ memCache' = [memCache EXCEPT ![p] = savedCache]
    /\ pc' = [pc EXCEPT ![p] = "idle"]
    /\ devPod' = [devPod EXCEPT ![p] = NoDevPod]
    /\ devPodCache' = [devPodCache EXCEPT ![p] = NoEntry]
    /\ replicaSet' = [replicaSet EXCEPT ![p] = NoObject]
    /\ target' = [target EXCEPT ![p] = NoObject]
    /\ depth' = [depth EXCEPT ![p] = 0]
    /\ polls' = [polls EXCEPT ![p] = 0]
    /\ result' = [result EXCEPT ![p] = "none"]
    /\ calls' = [calls EXCEPT ![p] = <<>>]
    /\ atStart' = [atStart EXCEPT ![p] = NoSnapshot]
    /\ repeat' = [repeat EXCEPT ![p] = FALSE]
    /\ UNCHANGED <<objects, pvcs, savedCache, devName, active, faults>>

\* where a call stands between fetching a replacement and acting on it
Deciding == {"updateNeeded", "deleteReplicaSet", "assertScaleDown", "patchReplicaSet"}

\* somebody else removes a replacement while a call is deciding on it
ReplacementRemoved ==
    /\ \E p \in Procs : pc[p] \in Deciding
    /\ \E k \in DOMAIN objects \ Candidates : objects' = Remove(objects, k)
    /\ UNCHANGED <<pvcs, savedCache, memCache, pc, devPod, devPodCache,
                   replicaSet, target, depth, polls, result, calls, history>>

\* somebody else creates the claim again after wait.Poll has seen it gone
ClaimAppears ==
    /\ \E p \in Procs :
          /\ pc[p] = "recreatePVC"
          /\ replicaSet[p].name \notin DOMAIN pvcs
          /\ pvcs' = [n \in DOMAIN pvcs \cup {replicaSet[p].name} |->
                         IF n = replicaSet[p].name THEN StaleClaim(n) ELSE pvcs[n]]
    /\ UNCHANGED <<objects, savedCache, memCache, pc, devPod, devPodCache,
                   replicaSet, target, depth, polls, result, calls, history>>

AllIdle == \A p \in Procs : pc[p] = "idle"

OperatorStep ==
    /\ AllIdle
    /\ UNCHANGED <<pvcs, savedCache, memCache, pc, devPod, devPodCache,
                   replicaSet, target, depth, polls, result, calls, history>>

\* an operator scales a workload of theirs
OperatorScale ==
    /\ \E k \in Candidates, n \in ReplicaChoices :
          /\ objects[k].replicas # n
          /\ objects' = [objects EXCEPT ![k].replicas = n]
    /\ OperatorStep

\* an operator changes the pod template of a workload of theirs
OperatorEdit ==
    /\ \E k \in Candidates :
          objects' = [objects EXCEPT ![k].template.base =
                                        IF @ = "v1" THEN "v2" ELSE "v1"]
    /\ OperatorStep

\* an operator deletes a workload of theirs
OperatorDelete ==
    /\ \E k \in Candidates : objects' = Remove(objects, k)
    /\ OperatorStep

----------------------------------------------------------------------------

Next ==
    \/ \E p \in Procs : Start(p)
    \/ \E p \in Procs : Again(p)
    \/ \E p \in Procs : Finish(p)
    \/ \E p \in Procs : GetReplicaSet(p)
    \/ \E p \in Procs : UpdateNeeded(p)
    \/ \E p \in Procs : DeleteReplicaSet(p)
    \/ \E p \in Procs : AssertScaleDown(p)
    \/ \E p \in Procs : PatchReplicaSet(p)
    \/ \E p \in Procs : FindTarget(p)
    \/ \E p \in Procs : Save(p)
    \/ \E p \in Procs : ScaleDown(p)
    \/ \E p \in Procs : Create(p)
    \/ \E p \in Procs : CreatePVC(p)
    \/ \E p \in Procs : DeletePVC(p)
    \/ \E p \in Procs : Poll(p)
    \/ \E p \in Procs : RecreatePVC(p)
    \/ \E p \in Procs : Crash(p)
    \/ Terminate
    \/ OperatorScale
    \/ OperatorEdit
    \/ OperatorDelete

Spec == Init /\ [][Next]_vars

----------------------------------------------------------------------------
(* The persistent volume step on its own: replace has just created the       *)
(* replacement of a target scaled down from MaxReplicas, for a dev pod with  *)
(* persisted paths and any PersistenceOptions                                *)

InitPVC ==
    \E kind \in Kinds, o \in AllOptions,
       stale \in SUBSET {ReplicaSetName(TargetName), ClaimName} :
        LET tg == Workload(kind, TargetName, MaxReplicas, "v1")
            d == DevPod(devName, PersistContainers, o)
            rs == buildReplicaSet(ReplicaSetName(TargetName), tg, d)
            entry == CacheFor(GetDevPod(<<>>, devName), tg)
        IN
        /\ active = {"p1"}
        /\ faults = TRUE
        /\ devName \in DevPodNames
        /\ objects = Put(Put(<<>>, ScaledDown(tg)), rs)
        /\ pvcs = [n \in stale |-> StaleClaim(n)]
        /\ savedCache = SetDevPod(<<>>, devName, entry)
        /\ memCache = [p \in Procs |-> IF p = "p1" THEN savedCache ELSE <<>>]
        /\ pc = [p \in Procs |-> IF p = "p1" THEN "createPVC" ELSE "idle"]
        /\ devPod = [p \in Procs |-> IF p = "p1" THEN d ELSE NoDevPod]
        /\ devPodCache = [p \in Procs |-> IF p = "p1" THEN entry ELSE NoEntry]
        /\ replicaSet = [p \in Procs |-> IF p = "p1" THEN rs ELSE NoObject]
        /\ target = [p \in Procs |-> IF p = "p1" THEN ScaledDown(tg) ELSE NoObject]
        /\ depth = [p \in Procs |-> 0]
        /\ polls = [p \in Procs |-> 0]
        /\ result = [p \in Procs |-> "none"]
        /\ calls = [p \in Procs |->
                      IF p = "p1"
                      THEN <<Call("Save", "Cache", devName, "ok"),
                             Call("Patch", kind, TargetName, "ok"),
                             Call("Create", "ReplicaSet", rs.name, "ok")>>
                      ELSE <<>>]
        /\ atStart = [p \in Procs |->
                        IF p = "p1"
                        THEN [cached |-> FALSE, replacements |-> {}, targets |-> {tg}]
                        ELSE NoSnapshot]
        /\ repeat = [p \in Procs |-> FALSE]

NextPVC ==
    \/ \E p \in Procs : CreatePVC(p)
    \/ \E p \in Procs : DeletePVC(p)
    \/ \E p \in Procs : Poll(p)
    \/ \E p \in Procs : RecreatePVC(p)
    \/ Terminate
    \/ ClaimAppears

SpecPVC == InitPVC /\ [][NextPVC]_vars

----------------------------------------------------------------------------
(* A pass over what an earlier pass left behind: the cache names the         *)
(* replacement, the replacement is there with its target annotations as      *)
(* somebody has left them, and the target is scaled down, scaled up again or *)
(* gone                                                                      *)

InitStale ==
    \E kind \in Kinds, n \in {0, MaxReplicas}, present \in BOOLEAN,
       keepKind \in BOOLEAN, keepName \in BOOLEAN,
       containers \in {PlainContainers, PersistContainers},
       stale \in SUBSET {ReplicaSetName(TargetName), ClaimName} :
        LET tg == Workload(kind, TargetName, 1, "v1")
            d == DevPod(devName, containers, NilOptions)
            built == buildReplicaSet(ReplicaSetName(TargetName), tg, d)
            rs == [built EXCEPT
                      !.annotations.parentKind = IF keepKind THEN @ ELSE "",
                      !.annotations.parentName = IF keepName THEN @ ELSE ""]
            now == [ScaledDown(tg) EXCEPT !.replicas = n]
            entry == CacheFor(GetDevPod(<<>>, devName), tg)
        IN
        /\ active = {"p1"}
        /\ faults = TRUE
        /\ devName \in DevPodNames
        /\ objects = IF present THEN Put(Put(<<>>, now), rs) ELSE Put(<<>>, rs)
        /\ pvcs = [c \in stale |-> StaleClaim(c)]
        /\ savedCache = SetDevPod(<<>>, devName, entry)
        /\ memCache = [p \in Procs |-> IF p = "p1" THEN savedCache ELSE <<>>]
        /\ pc = [p \in Procs |-> "idle"]
        /\ devPod = [p \in Procs |-> NoDevPod]
        /\ devPodCache = [p \in Procs |-> NoEntry]
        /\ replicaSet = [p \in Procs |-> NoObject]
        /\ target = [p \in Procs |-> NoObject]
        /\ depth = [p \in Procs |-> 0]
        /\ polls = [p \in Procs |-> 0]
        /\ result = [p \in Procs |-> "none"]
        /\ calls = [p \in Procs |-> <<>>]
        /\ atStart = [p \in Procs |-> NoSnapshot]
        /\ repeat = [p \in Procs |-> FALSE]

NextStale ==
    \/ \E p \in Procs : Start(p)
    \/ \E p \in Procs : GetReplicaSet(p)
    \/ \E p \in Procs : UpdateNeeded(p)
    \/ \E p \in Procs : DeleteReplicaSet(p)
    \/ \E p \in Procs : AssertScaleDown(p)
    \/ \E p \in Procs : PatchReplicaSet(p)
    \/ \E p \in Procs : FindTarget(p)
    \/ \E p \in Procs : Save(p)
    \/ \E p \in Procs : ScaleDown(p)
    \/ \E p \in Procs : Create(p)
    \/ \E p \in Procs : CreatePVC(p)
    \/ \E p \in Procs : DeletePVC(p)
    \/ \E p \in Procs : Poll(p)
    \/ \E p \in Procs : RecreatePVC(p)
    \/ Terminate
    \/ ReplacementRemoved

SpecStale == InitStale /\ [][NextStale]_vars

----------------------------------------------------------------------------
(* Two processes replace the same dev pod at once: neither has a cache       *)
(* entry, there is no replacement, the target has replicas, and no request   *)
(* fails for a reason of its own                                             *)

InitRace ==
    /\ InitWith(Procs, FALSE)
    /\ \A k \in DOMAIN objects : objects[k].replicas > 0

NextRace ==
    \/ \E p \in Procs : Start(p)
    \/ \E p \in Procs : GetReplicaSet(p)
    \/ \E p \in Procs : UpdateNeeded(p)
    \/ \E p \in Procs : DeleteReplicaSet(p)
    \/ \E p \in Procs : AssertScaleDown(p)
    \/ \E p \in Procs : PatchReplicaSet(p)
    \/ \E p \in Procs : FindTarget(p)
    \/ \E p \in Procs : Save(p)
    \/ \E p \in Procs : ScaleDown(p)
    \/ \E p \in Procs : Create(p)
    \/ \E p \in Procs : CreatePVC(p)
    \/ \E p \in Procs : DeletePVC(p)
    \/ \E p \in Procs : Poll(p)
    \/ \E p \in Procs : RecreatePVC(p)
    \/ Terminate

SpecRace == InitRace /\ [][NextRace]_vars

----------------------------------------------------------------------------
(* Properties *)

\* the requests that create, change or remove an object of the namespace
Mutating(call) == call.op \in {"Create", "Patch", "Delete"}

\* the decimal text of the replica counts of the model
DecimalText(n) ==
    CASE n = 1 -> "1" [] n = 10 -> "10" [] n = 11 -> "11" [] OTHER -> Itoa(n)

\* process p repeats a successful call, and when it started the target stood
\* at 0 replicas and its replacement matched the declaration
SettledAtStart(p) ==
    /\ repeat[p]
    /\ \E t \in atStart[p].targets, r \in atStart[p].replacements :
          /\ t.replicas = 0
          /\ r.name = t.name \o "-devspace"
          /\ r.annotations.parentKind = t.kind
          /\ r.annotations.parentName = t.name
          /\ r.annotations.configHash = hashConfig(devPod[p])
          /\ r.template = [base |-> t.template.base,
                           persist |-> HasPersistPath(devPod[p])]

\* C1: a second ReplacePod call with the same declaration, the target at 0
\* replicas and the replacement matching, makes no create, patch or delete
\* request and does not re-enter ReplacePod, whatever the dev pod's name
C1_SecondCallMutatesNothing ==
    \A p \in Procs :
        SettledAtStart(p) =>
            /\ \A i \in 1..Len(calls[p]) : ~Mutating(calls[p][i])
            /\ depth[p] = 0

\* the call of p started without cache entry and replacement, with a target
\* of n > 0 replicas, and has returned success
FirstReplacementDone(p, t) ==
    /\ pc[p] = "returned"
    /\ result[p] = "ok"
    /\ ~atStart[p].cached
    /\ atStart[p].replacements = {}
    /\ t \in atStart[p].targets
    /\ t.replicas > 0

\* C2: a successful first ReplacePod leaves the replacement
\* <targetName>-devspace created, the target at 0 replicas with the
\* devspace.sh/replicas annotation holding its former count in decimal, and
\* the cache entry holding target kind, target name and replacement name
C2_FirstReplacement ==
    \A p \in Procs : \A t \in atStart[p].targets :
        FirstReplacementDone(p, t) =>
            LET name == t.name \o "-devspace" IN
            /\ <<"ReplicaSet", name>> \in DOMAIN objects
            /\ \E i \in 1..Len(calls[p]) :
                  calls[p][i] = Call("Create", "ReplicaSet", name, "ok")
            /\ <<t.kind, t.name>> \in DOMAIN objects
            /\ objects[<<t.kind, t.name>>].replicas = 0
            /\ objects[<<t.kind, t.name>>].annotations.replicas = DecimalText(t.replicas)
            /\ devPod[p].name \in DOMAIN savedCache
            /\ savedCache[devPod[p].name] =
                  [Name |-> devPod[p].name, Namespace |-> Namespace,
                   TargetKind |-> t.kind, TargetName |-> t.name,
                   ReplicaSet |-> name]
            /\ memCache[p] = savedCache

C2_Witness ==
    \E t \in atStart["p1"].targets :
        /\ FirstReplacementDone("p1", t)
        /\ t.replicas = MaxReplicas
        /\ devPod["p1"].name = "api"

\* process p takes a step out of scaleDownTarget
ScaleDownStep(p) ==
    /\ pc[p] \in {"scaleDown", "assertScaleDown"}
    /\ pc'[p] \notin {pc[p], "idle"}

\* C3: when a scale-down sets a workload's replicas to 0, the same patch
\* writes the devspace.sh/replicas annotation with the count the workload had
\* just before (1 when unset); the annotation never holds "0"
C3_ScaleState ==
    /\ [](\A k \in DOMAIN objects : objects[k].annotations.replicas # "0")
    /\ [][\A p \in Procs : ScaleDownStep(p) =>
            \A k \in DOMAIN objects :
                (objects[k].replicas # 0 /\ objects'[k].replicas = 0) =>
                    objects'[k].annotations.replicas =
                        DecimalText(IF objects[k].replicas = Unset THEN 1
                                    ELSE objects[k].replicas)]_vars

\* a target scaled down from MaxReplicas a second time, after an operator
\* had scaled it back up from an earlier scale-down
C3_Witness ==
    /\ pc["p1"] = "returned"
    /\ \E t \in atStart["p1"].targets :
          /\ t.replicas = MaxReplicas
          /\ t.annotations.replicas = "1"
          /\ Call("Patch", t.kind, t.name, "ok") \in {calls["p1"][i] : i \in 1..Len(calls["p1"])}
          /\ objects[<<t.kind, t.name>>].replicas = 0
          /\ objects[<<t.kind, t.name>>].annotations.replicas = DecimalText(MaxReplicas)

\* C4: scaleDownTarget on a target of any of the three kinds whose replica
\* count is 0 returns success, makes no patch request and leaves the cluster
\* object, its stored annotation included, as it is
C4_ScaleDownIdempotent ==
    [][\A p \in Procs :
          (ScaleDownStep(p) /\ target[p].kind \in Kinds /\ target[p].replicas = 0) =>
              /\ calls'[p] = calls[p]
              /\ objects' = objects
              /\ IF pc[p] = "scaleDown" THEN pc'[p] = "create"
                 ELSE pc'[p] = "returned" /\ result'[p] = "ok"]_vars

\* replace has come past the scale-down of a stateful set already at 0
\* replicas whose former count is stored, without a patch request
C4_Witness ==
    /\ pc["p1"] = "create"
    /\ target["p1"].kind = "StatefulSet"
    /\ target["p1"].replicas = 0
    /\ target["p1"].annotations.replicas = DecimalText(MaxReplicas)
    /\ objects[Key(target["p1"])] = target["p1"]
    /\ \A i \in 1..Len(calls["p1"]) : calls["p1"][i].op # "Patch"

\* process p takes a step of the call other than crashing
Steps(p, label) == pc[p] = label /\ pc'[p] \notin {label, "idle"}

\* p has fetched a replacement with both target annotations whose target exists
Managed(p) ==
    /\ replicaSet[p].annotations.parentKind # ""
    /\ replicaSet[p].annotations.parentName # ""
    /\ <<replicaSet[p].annotations.parentKind,
         replicaSet[p].annotations.parentName>> \in DOMAIN objects

AnnotatedTarget(p) ==
    objects[<<replicaSet[p].annotations.parentKind,
              replicaSet[p].annotations.parentName>>]

\* the pod template the dev pod of p asks for on top of its annotated target
DesiredTemplate(p) ==
    [base |-> AnnotatedTarget(p).template.base,
     persist |-> HasPersistPath(devPod[p])]

\* template and hash of the fetched replacement are those the dev pod asks for
Matches(p) ==
    /\ replicaSet[p].template = DesiredTemplate(p)
    /\ replicaSet[p].annotations.configHash = hashConfig(devPod[p])

ErrorReturned(p) == pc'[p] = "returned" /\ result'[p] = "error"

\* C5: with both annotations, the target present and template and hash
\* matching, updateNeeded goes to the scale-down of the target and nowhere
\* else; that step reports success, leaves the replacement alone and patches
\* a target found at M > 0 replicas, which stands at 0 once the cluster has
\* applied the patch
C5_MatchingCase ==
    /\ [][\A p \in Procs :
            (Steps(p, "updateNeeded") /\ Managed(p) /\ Matches(p)) =>
                pc'[p] = "assertScaleDown" \/ ErrorReturned(p)]_vars
    /\ [][\A p \in Procs :
            Steps(p, "assertScaleDown") =>
                LET t == Key(target[p]) IN
                /\ pc'[p] = "returned" /\ result'[p] = "ok"
                /\ DOMAIN objects' = DOMAIN objects
                /\ \A k \in DOMAIN objects : k # t => objects'[k] = objects[k]
                /\ IF target[p].replicas = 0 THEN calls'[p] = calls[p]
                   ELSE \E answer \in {"ok", "NotFound", "error"} :
                          /\ calls'[p] = Append(calls[p], Call("Patch", t[1], t[2], answer))
                          /\ answer = "ok" => objects'[t].replicas = 0]_vars

\* a pass over a matching replacement whose target an operator had scaled
\* back up to MaxReplicas: the target is at 0 again
C5_Witness ==
    /\ pc["p1"] = "returned"
    /\ result["p1"] = "ok"
    /\ \E t \in atStart["p1"].targets :
          /\ t.replicas = MaxReplicas
          /\ atStart["p1"].replacements # {}
          /\ calls["p1"] = <<Call("Patch", t.kind, t.name, "ok")>>
          /\ objects[<<t.kind, t.name>>].replicas = 0

\* C6: with both annotations and the target present, a differing template or
\* hash sends updateNeeded to the patch of the replacement; that step makes
\* exactly one patch request, which changes only the pod template and the
\* config-hash annotation of the existing replacement, creates and deletes
\* nothing, and ReplacePod returns without taking the full path
C6_MismatchCase ==
    /\ [][\A p \in Procs :
            (Steps(p, "updateNeeded") /\ Managed(p) /\ ~Matches(p)) =>
                pc'[p] = "patchReplicaSet" \/ ErrorReturned(p)]_vars
    /\ [][\A p \in Procs :
            Steps(p, "patchReplicaSet") =>
                LET r == Key(replicaSet[p]) IN
                /\ pc'[p] = "returned"
                /\ DOMAIN objects' = DOMAIN objects
                /\ \A k \in DOMAIN objects : k # r => objects'[k] = objects[k]
                /\ \E answer \in {"ok", "NotFound", "error"} :
                      /\ calls'[p] = Append(calls[p], Call("Patch", "ReplicaSet", r[2], answer))
                      /\ result'[p] = IF answer = "ok" THEN "ok" ELSE "error"
                      /\ answer # "ok" => objects' = objects
                      /\ answer = "ok" =>
                            objects'[r] =
                                [objects[r] EXCEPT
                                    !.template =
                                        [base |-> target[p].template.base,
                                         persist |-> HasPersistPath(devPod[p])],
                                    !.annotations.configHash = hashConfig(devPod[p])]]_vars

\* a pass that patched the replacement in place: its template has changed,
\* its name, replica count and target annotations have not
C6_Witness ==
    /\ pc["p1"] = "returned"
    /\ result["p1"] = "ok"
    /\ \E r \in atStart["p1"].replacements :
          /\ calls["p1"] = <<Call("Patch", "ReplicaSet", r.name, "ok")>>
          /\ objects[Key(r)].template # r.template
          /\ objects[Key(r)].annotations.configHash # r.annotations.configHash
          /\ objects[Key(r)].annotations.parentName = r.annotations.parentName

\* where a call stands after Save has succeeded on the full path
PostSave == {"scaleDown", "create", "createPVC", "deletePVC", "poll", "recreatePVC"}

\* the cache entry the full path writes for the target p has resolved
FullPathEntry(p) ==
    [Name |-> devPod[p].name, Namespace |-> Namespace,
     TargetKind |-> target[p].kind, TargetName |-> target[p].name,
     ReplicaSet |-> target[p].name \o "-devspace"]

\* C7: on the full path the cache entry (target kind, target name,
\* <targetName>-devspace) is saved before the scale-down and before the
\* create; a failed Save ends the call with an error and nothing is
\* requested after it; a crash after Save leaves the entry in the cache the
\* next call reads
C7_WriteAhead ==
    /\ [](\A p \in Procs :
            /\ pc[p] \in PostSave =>
                  /\ devPod[p].name \in DOMAIN savedCache
                  /\ savedCache[devPod[p].name] = FullPathEntry(p)
            /\ \A i \in 1..Len(calls[p]) :
                  /\ (calls[p][i].op = "Create" /\ calls[p][i].kind = "ReplicaSet") =>
                        \E j \in 1..(i - 1) :
                            calls[p][j] = Call("Save", "Cache", devPod[p].name, "ok")
                  /\ (calls[p][i].op = "Save" /\ calls[p][i].answer # "ok") =>
                        /\ i = Len(calls[p])
                        /\ pc[p] = "returned"
                        /\ result[p] = "error")
    /\ [][\A p \in Procs :
            (pc[p] \in PostSave /\ pc'[p] = "idle") =>
                /\ savedCache' = savedCache
                /\ devPod[p].name \in DOMAIN memCache'[p]
                /\ memCache'[p][devPod[p].name] = FullPathEntry(p)]_vars

\* a call that ended between the scale-down and the create: the cache names
\* the replacement, the target is scaled down, the replacement is not there
C7_Witness ==
    /\ pc["p1"] = "idle"
    /\ devName \in DOMAIN memCache["p1"]
    /\ memCache["p1"][devName].ReplicaSet = TargetName \o "-devspace"
    /\ <<"ReplicaSet", TargetName \o "-devspace">> \notin DOMAIN objects
    /\ \E k \in Candidates :
          objects[k].replicas = 0 /\ objects[k].annotations.replicas # ""

\* C8: within one top-level call ReplacePod is re-entered at most once
C8_AtMostOneRetry == \A p \in Procs : depth[p] <= 1

\* the last request of p created the claim `name`
ClaimCreated(p, name) ==
    /\ calls[p] # <<>>
    /\ calls[p][Len(calls[p])] = Call("Create", "PersistentVolumeClaim", name, "ok")

\* C9: the claim createPVC creates asks for 10Gi, is ReadWriteOnce, has no
\* storage class and bears the replacement's name, and each of the four is
\* the PersistenceOptions field instead when, and only when, that field is set
C9_PVCDefaults ==
    \A p \in Procs : \A name \in DOMAIN pvcs :
        ClaimCreated(p, name) =>
            LET o == devPod[p].PersistenceOptions IN
            /\ name = IF ~o.isNil /\ o.Name # "" THEN o.Name
                      ELSE TargetName \o "-devspace"
            /\ pvcs[name].name = name
            /\ pvcs[name].storage =
                  IF ~o.isNil /\ o.Size = "20Gi"
                  THEN [ok |-> TRUE, value |-> 20, suffix |-> "Gi"]
                  ELSE [ok |-> TRUE, value |-> 10, suffix |-> "Gi"]
            /\ (~o.isNil /\ o.Size # "") => o.Size = "20Gi"
            /\ pvcs[name].accessModes =
                  IF ~o.isNil /\ ~o.AccessModes.isNil THEN o.AccessModes.modes
                  ELSE <<"ReadWriteOnce">>
            /\ pvcs[name].storageClassName = IF o.isNil THEN "" ELSE o.StorageClassName

\* the claim of a dev pod without PersistenceOptions
C9_Witness ==
    /\ devPod["p1"].PersistenceOptions = NilOptions
    /\ ClaimCreated("p1", "web-devspace")
    /\ pvcs["web-devspace"].accessModes = <<"ReadWriteOnce">>
    /\ pvcs["web-devspace"].storage.value = 10
    /\ pvcs["web-devspace"].storage.suffix = "Gi"
    /\ pvcs["web-devspace"].storageClassName = ""

\* C10: with PersistenceOptions.Name set and a claim of that name in the
\* namespace, createPVC's create request is answered already-exists and
\* createPVC returns success; replace returns without deleting a claim or
\* polling, and the claims are as they were
C10_PVCAdoption ==
    [][\A p \in Procs :
          LET o == devPod[p].PersistenceOptions IN
          (Steps(p, "createPVC") /\ ~o.isNil /\ o.Name # "" /\ o.Name \in DOMAIN pvcs) =>
              /\ pvcs' = pvcs
              /\ pc'[p] = "returned"
              /\ IF ~ParseQuantity(IF o.Size = "" THEN "10Gi" ELSE o.Size).ok
                 THEN calls'[p] = calls[p] /\ result'[p] = "error"
                 ELSE \E answer \in {"AlreadyExists", "error"} :
                        /\ calls'[p] = Append(calls[p],
                              Call("Create", "PersistentVolumeClaim", o.Name, answer))
                        /\ result'[p] = IF answer = "AlreadyExists" THEN "ok" ELSE "error"]_vars

\* replace has returned success over a claim that was there before
C10_Witness ==
    /\ pc["p1"] = "returned"
    /\ result["p1"] = "ok"
    /\ devPod["p1"].PersistenceOptions.Name = ClaimName
    /\ calls["p1"][Len(calls["p1"])] =
          Call("Create", "PersistentVolumeClaim", ClaimName, "AlreadyExists")
    /\ ClaimName \in DOMAIN pvcs
    /\ pvcs[ClaimName] = StaleClaim(ClaimName)

\* C11: a claim createPVC creates is owned by the replacement, with
\* controller = true, when no explicit claim name was given, and carries no
\* owner reference when PersistenceOptions.Name is set
C11_PVCOwnership ==
    \A p \in Procs : \A name \in DOMAIN pvcs :
        ClaimCreated(p, name) =>
            LET o == devPod[p].PersistenceOptions IN
            IF ~o.isNil /\ o.Name # ""
            THEN /\ pvcs[name].ownerKind = ""
                 /\ pvcs[name].ownerName = ""
                 /\ ~pvcs[name].controller
            ELSE /\ pvcs[name].ownerKind = "ReplicaSet"
                 /\ pvcs[name].ownerName = TargetName \o "-devspace"
                 /\ pvcs[name].controller

\* C12: a call whose cache entry names a replacement fetches the replica set
\* of that name: if it exists the update decision is run on it, only if it
\* does not exist does the call take the full path, and a fetch that fails
\* otherwise ends the call with an error; the fetch changes neither cluster
\* nor cache
C12_ReplacementLookup ==
    [][\A p \in Procs :
          Steps(p, "getRS") =>
              LET key == <<"ReplicaSet", devPodCache[p].ReplicaSet>> IN
              /\ devPodCache[p].ReplicaSet # ""
              /\ objects' = objects /\ pvcs' = pvcs
              /\ savedCache' = savedCache /\ memCache' = memCache
              /\ calls'[p] = calls[p]
              /\ \/ ErrorReturned(p)
                 \/ /\ key \in DOMAIN objects
                    /\ pc'[p] = "updateNeeded"
                    /\ replicaSet'[p] = objects[key]
                 \/ /\ key \notin DOMAIN objects
                    /\ pc'[p] = "findTarget"]_vars

\* the fetched replacement of p lacks a target annotation
LacksAnnotation(p) ==
    \/ replicaSet[p].annotations.parentKind = ""
    \/ replicaSet[p].annotations.parentName = ""

\* C13: updateNeeded sends a replacement that lacks the target-kind or the
\* target-name annotation, or whose annotated target is not found, to its
\* deletion, after which the call takes the full path, a not-found answer of
\* the delete included; another error of the target lookup ends the call
\* with that error, nothing deleted or patched, and another error of the
\* delete ends it with the replacement still there
C13_StaleReplacement ==
    /\ [][\A p \in Procs :
            Steps(p, "updateNeeded") =>
                /\ objects' = objects /\ calls'[p] = calls[p]
                /\ LacksAnnotation(p) => pc'[p] = "deleteReplicaSet"
                /\ (~LacksAnnotation(p) /\ ~Managed(p)) =>
                       pc'[p] = "deleteReplicaSet" \/ ErrorReturned(p)
                /\ pc'[p] = "deleteReplicaSet" => LacksAnnotation(p) \/ ~Managed(p)]_vars
    /\ [][\A p \in Procs :
            Steps(p, "deleteReplicaSet") =>
                LET r == Key(replicaSet[p]) IN
                /\ \A k \in DOMAIN objects' : k \in DOMAIN objects /\ objects'[k] = objects[k]
                /\ \A k \in DOMAIN objects : k # r => k \in DOMAIN objects'
                /\ \E answer \in {"ok", "NotFound", "error"} :
                      /\ calls'[p] = Append(calls[p], Call("Delete", "ReplicaSet", r[2], answer))
                      /\ answer = "ok" => r \in DOMAIN objects
                      /\ answer = "NotFound" => r \notin DOMAIN objects
                      /\ IF answer = "error"
                         THEN ErrorReturned(p) /\ objects' = objects
                         ELSE pc'[p] = "findTarget" /\ r \notin DOMAIN objects']_vars

\* a replacement that had lost its target-kind annotation alone has been
\* deleted, and the call is on the full path
C13_Witness ==
    /\ pc["p1"] = "findTarget"
    /\ replicaSet["p1"].name = TargetName \o "-devspace"
    /\ replicaSet["p1"].annotations.parentKind = ""
    /\ replicaSet["p1"].annotations.parentName = TargetName
    /\ calls["p1"] = <<Call("Delete", "ReplicaSet", TargetName \o "-devspace", "ok")>>
    /\ <<"ReplicaSet", TargetName \o "-devspace">> \notin DOMAIN objects

\* C14: on the full path with no workload for the selector to match,
\* ReplacePod returns an error; that step leaves the cache, saved and in
\* memory, and the cluster as they are and makes no request, and a call that
\* started with no such workload never saves, scales, creates or touches a
\* claim
C14_NoMatchingWorkload ==
    /\ [][\A p \in Procs :
            (Steps(p, "findTarget") /\ Candidates = {}) =>
                /\ ErrorReturned(p)
                /\ savedCache' = savedCache /\ memCache' = memCache
                /\ objects' = objects /\ pvcs' = pvcs
                /\ calls'[p] = calls[p]]_vars
    /\ [](\A p \in Procs :
            (pc[p] # "idle" /\ atStart[p].targets = {}) =>
                /\ pc[p] \notin PostSave \cup {"save"}
                /\ result[p] # "ok"
                /\ \A i \in 1..Len(calls[p]) :
                      calls[p][i].op = "Delete" /\ calls[p][i].kind = "ReplicaSet")

\* a pass that found the target of its cached replacement gone, deleted the
\* replacement and then had nothing to replace
C14_Witness ==
    /\ pc["p1"] = "returned"
    /\ result["p1"] = "error"
    /\ atStart["p1"].cached
    /\ atStart["p1"].targets = {}
    /\ Candidates = {}
    /\ calls["p1"] = <<Call("Delete", "ReplicaSet", TargetName \o "-devspace", "ok")>>
    /\ savedCache = memCache["p1"]
    /\ savedCache[devName].ReplicaSet = TargetName \o "-devspace"

\* the last request of p's log after this step is the create of a replica set
CreateIssued(p) ==
    /\ Len(calls'[p]) = Len(calls[p]) + 1
    /\ calls'[p][Len(calls'[p])].op = "Create"
    /\ calls'[p][Len(calls'[p])].kind = "ReplicaSet"

\* C15: replace scales the target down before it creates the replacement: a
\* target observed with replicas is patched, a patch that fails ends the call
\* with an error and no create, the create is only ever requested after the
\* scale-down has gone through, and then the target stands at 0 replicas on
\* the cluster
C15_ScaleDownFirst ==
    /\ [][\A p \in Procs :
            Steps(p, "scaleDown") =>
                LET t == Key(target[p]) IN
                IF target[p].replicas = 0
                THEN pc'[p] = "create" /\ calls'[p] = calls[p] /\ objects' = objects
                ELSE \E answer \in {"ok", "NotFound", "error"} :
                       /\ calls'[p] = Append(calls[p], Call("Patch", t[1], t[2], answer))
                       /\ IF answer = "ok"
                          THEN pc'[p] = "create" /\ objects'[t].replicas = 0
                          ELSE ErrorReturned(p) /\ objects' = objects]_vars
    /\ [][\A p \in Procs : CreateIssued(p) => pc[p] = "create"]_vars
    /\ [](\A p \in Procs :
            pc[p] = "create" =>
                /\ Key(target[p]) \in DOMAIN objects
                /\ objects[Key(target[p])].replicas = 0)
    /\ [][\A p \in Procs :
            (CreateIssued(p) /\ objects' # objects) =>
                /\ Key(replicaSet[p]) \in DOMAIN objects'
                /\ objects'[Key(target[p])].replicas = 0]_vars

\* a pass whose scale-down of a target at MaxReplicas failed: it has returned
\* an error, the target still runs and there is no replacement
C15_Witness ==
    /\ pc["p1"] = "returned"
    /\ result["p1"] = "error"
    /\ \E t \in atStart["p1"].targets :
          /\ t.replicas = MaxReplicas
          /\ calls["p1"] = <<Call("Save", "Cache", devName, "ok"),
                              Call("Patch", t.kind, t.name, "error")>>
          /\ objects[Key(t)] = t
    /\ DOMAIN objects \ Candidates = {}

\* the requests of p that create a claim
ClaimCreates(p) ==
    {i \in 1..Len(calls[p]) :
        calls[p][i].op = "Create" /\ calls[p][i].kind = "PersistentVolumeClaim"}

\* C16: without an explicit claim name, a create of the claim answered
\* already-exists is followed by the delete of the claim named after the
\* replacement, then by polls until the claim is not found, then by one more
\* create; a wait that runs out of polls and a second create that fails,
\* already-exists included, end the call with an error, and no call asks for
\* the claim more than twice
C16_StaleClaim ==
    /\ [][\A p \in Procs :
            LET o == devPod[p].PersistenceOptions
                name == replicaSet[p].name
            IN
            /\ (Steps(p, "createPVC") /\ (o.isNil \/ o.Name = "") /\ name \in DOMAIN pvcs
                   /\ calls'[p] # calls[p]) =>
                  \E answer \in {"AlreadyExists", "error"} :
                      /\ calls'[p] = Append(calls[p],
                            Call("Create", "PersistentVolumeClaim", name, answer))
                      /\ IF answer = "AlreadyExists" THEN pc'[p] = "deletePVC"
                         ELSE ErrorReturned(p)
            /\ Steps(p, "deletePVC") =>
                  /\ pc'[p] = "poll"
                  /\ \E answer \in {"ok", "NotFound", "error"} :
                        calls'[p] = Append(calls[p],
                            Call("Delete", "PersistentVolumeClaim", name, answer))
            /\ Steps(p, "poll") =>
                  /\ calls'[p] = calls[p] /\ pvcs' = pvcs
                  /\ \/ pc'[p] = "recreatePVC" /\ name \notin DOMAIN pvcs
                     \/ ErrorReturned(p) /\ polls[p] + 1 >= PollLimit
            /\ Steps(p, "recreatePVC") =>
                  /\ pc'[p] = "returned"
                  /\ \E answer \in {"ok", "AlreadyExists", "error"} :
                        /\ calls'[p] = Append(calls[p],
                              Call("Create", "PersistentVolumeClaim", name, answer))
                        /\ result'[p] = IF answer = "ok" THEN "ok" ELSE "error"
                        /\ answer = "ok" <=> name \notin DOMAIN pvcs /\ name \in DOMAIN pvcs'
                        /\ answer = "AlreadyExists" => name \in DOMAIN pvcs]_vars
    /\ [](\A p \in Procs :
            /\ polls[p] < PollLimit
            /\ Cardinality(ClaimCreates(p)) <= 2
            /\ Cardinality(ClaimCreates(p)) = 2 =>
                  /\ pc[p] = "returned"
                  /\ \E i \in ClaimCreates(p) :
                        /\ calls[p][i].answer = "AlreadyExists"
                        /\ calls[p][i + 1].op = "Delete"
                        /\ calls[p][i + 1].name = calls[p][i].name
                        /\ calls[p][i + 2].op = "Create"
                        /\ i + 2 = Len(calls[p]))

\* the stale claim of the replacement's name has been deleted and the claim
\* created anew, owned by the replacement
C16_Witness ==
    /\ pc["p1"] = "returned"
    /\ result["p1"] = "ok"
    /\ LET n == Len(calls["p1"])
           name == TargetName \o "-devspace"
       IN
       /\ n >= 3
       /\ calls["p1"][n - 2] = Call("Create", "PersistentVolumeClaim", name, "AlreadyExists")
       /\ calls["p1"][n - 1] = Call("Delete", "PersistentVolumeClaim", name, "ok")
       /\ calls["p1"][n] = Call("Create", "PersistentVolumeClaim", name, "ok")
       /\ name \in DOMAIN pvcs
       /\ pvcs[name].ownerName = name

\* C17: a request that fails with an error other than not-found or
\* already-exists is the last request of its call, and the call has returned
\* an error: the patch of the target in the no-change branch and the delete
\* of the stale claim included
C17_FailFast ==
    \A p \in Procs : \A i \in 1..Len(calls[p]) :
        calls[p][i].answer = "error" =>
            /\ i = Len(calls[p])
            /\ pc[p] = "returned"
            /\ result[p] = "error"

\* the creates of a replica set by p that the cluster answered with `answer`
ReplacementCreates(p, answer) ==
    {i \in 1..Len(calls[p]) :
        /\ calls[p][i].op = "Create"
        /\ calls[p][i].kind = "ReplicaSet"
        /\ calls[p][i].answer = answer}

\* C18: of two processes replacing the same dev pod at once, over a target
\* with N > 0 replicas and no replacement, (a) one creates the replacement
\* and the other is answered already-exists, (b) each re-enters ReplacePod
\* once at most, so both calls end, and (c) the devspace.sh/replicas
\* annotation of the target, once written, holds N whatever the other
\* process does
C18_Race ==
    /\ Cardinality(ReplacementCreates("p1", "ok"))
          + Cardinality(ReplacementCreates("p2", "ok")) <= 1
    /\ (\A p \in Procs : pc[p] = "returned") =>
          \E p \in Procs, q \in Procs :
              /\ p # q
              /\ Cardinality(ReplacementCreates(p, "ok")) = 1
              /\ ReplacementCreates(q, "AlreadyExists") # {}
    /\ \A p \in Procs : depth[p] <= 1
    /\ \A p \in Procs : \A t \in atStart[p].targets :
          (t.replicas > 0 /\ Key(t) \in DOMAIN objects) =>
              /\ objects[Key(t)].annotations.replicas \in {"", DecimalText(t.replicas)}
              /\ objects[Key(t)].replicas = 0 =>
                    objects[Key(t)].annotations.replicas = DecimalText(t.replicas)

\* a workload without its replica count and its devspace.sh/replicas annotation
Framed(obj) == [obj EXCEPT !.replicas = 0, !.annotations.replicas = ""]

\* C19: no step of a ReplacePod call removes a target workload or changes
\* anything of it but its replica count and its devspace.sh/replicas
\* annotation: its pod template, its other annotations and its existence are
\* left to its operator
C19_TargetFrame ==
    [][(\E p \in Procs : pc[p] # "idle") =>
          \A k \in Candidates :
              /\ k \in DOMAIN objects'
              /\ Framed(objects'[k]) = Framed(objects[k])]_vars

\* the name of the claim of a dev pod: the explicit one, or the replacement's
ClaimOf(d) ==
    IF ~d.PersistenceOptions.isNil /\ d.PersistenceOptions.Name # ""
    THEN d.PersistenceOptions.Name
    ELSE TargetName \o "-devspace"

\* C20: when ReplacePod has returned success for a dev pod with persisted
\* paths, the claim of the explicit or derived name is in the namespace,
\* whichever way the pass went; for a dev pod without persisted paths the
\* call has made no request for a claim
C20_PVCEnsured ==
    \A p \in Procs :
        (pc[p] = "returned" /\ result[p] = "ok") =>
            IF HasPersistPath(devPod[p])
            THEN ClaimOf(devPod[p]) \in DOMAIN pvcs
            ELSE \A i \in 1..Len(calls[p]) : calls[p][i].kind # "PersistentVolumeClaim"

====
